---- MODULE Spec2Model ----
(***************************************************************************)
(* Crawl scheduling and execution engine: URL frontier, job store,         *)
(* orchestrator run loop with startup recovery, dashboard debug endpoint   *)
(* and the per-domain rate limiter.                                        *)
(*                                                                         *)
(* The process is one asyncio event loop (main.py gathers the dashboard    *)
(* and the worker).  Every function of app/db/queries.py is synchronous,   *)
(* so one call of it is one step of the loop; coroutines interleave only   *)
(* at their awaits.  A request to the store may raise; where the code      *)
(* catches that, the write is not applied and the handler's branch runs.   *)
(***************************************************************************)
EXTENDS Integers, Sequences, FiniteSets, TLC

\* ------------------------------------------------------------------ bounds
MaxUrls == 2
MaxJobs == 2
MaxCountries == 1
MaxList == 2
MaxInitJobs == 1
MaxQueries == 2
MaxTime == 6
MaxWaiters == 2
MaxDay == 4
MaxRunLen == 3
MaxFetchers == 2
MaxRobotsFetches == 2
MaxCount == 2
\* QUERY_RERUN_DAYS, the re-run window of a discovery query, in days
QueryRerunDays == 2
\* DISCOVERY_BATCH_SIZE (10) and PROCESS_BATCHES_PER_CYCLE (3) of
\* orchestrator.py, scaled so that a pause happens within MaxQueries.
DiscoveryBatchSize == 2
ProcessBatchesPerCycle == 2
\* The slice length of add_urls (100), scaled so that a list spans slices.
AddBatchSize == 1
\* WORKER_BATCH_SIZE and MAX_CONCURRENT_REQUESTS as config.py sets them when
\* the process environment does not
WorkerBatchSize == 100
MaxConcurrentRequests == 10
\* The batch limit (200) and the slack of the safety limit (100) of
\* _recover_stuck_urls, scaled so that the stuck set spans batches.
RecoverBatchLimit == 1
RecoverSlack == 2

URLS == 1..MaxUrls
COUNTRIES == {"US", "NZ"}
URL_STATUS == {"pending", "processing", "completed", "failed"}
TERMINAL == {"completed", "failed"}
CALLERS == {"worker", "dashboard"}

VARIABLES
    env,        \* the run's surroundings: the URLs the web holds, the job types requested
    urls,       \* table "urls": rows in created_at order
    jobs,       \* table "scrape_jobs": rows in created_at order, id = index
    wpc,        \* position of the worker coroutine (run_forever)
    shutdown,   \* Orchestrator._shutdown
    cur,        \* id of the job _execute_job is running, 0 if none
    ret,        \* where the batch loop returns to
    left,       \* batches left in _process_url_batches
    tasks,      \* process_one task per URL of the gathered batch
    dash,       \* the debug process-one handler: [pc, url]
    qleft,      \* queries discover_urls_db has not examined yet
    qsp,        \* queries_since_processing
    orphans,    \* history: ids of the jobs found running at process start
    last,       \* history: the call that has just returned, "none" one step later
    cnt,        \* the batch loops' counters, and what the running job has really done
    fK,         \* two-caller scenario: pending rows when the callers start
    fdone,      \* two-caller scenario: the callers whose claim has returned
    fret,       \* two-caller scenario: what each caller's claim returned
    flimit,     \* two-caller scenario: the limit each caller passed
    flast,      \* two-caller scenario: the caller whose claim has just returned
    now,        \* time.monotonic(), in seconds
    rlLast,     \* RateLimiter._last_request, -1 where the domain has no entry
    rlLock,     \* RateLimiter._locks: the caller holding the domain's lock, 0 if free
    rl,         \* the callers of RateLimiter.wait: [pc, dom, wake]
    rlPrev,     \* history: the domain's last-request time before the current one
    day,        \* the date, in days
    ledger,     \* table "search_queries": rows [query, executed_at]
    disc,       \* the running discover_urls_db generator: [pc, list, i, recent, t0]
    lastq,      \* history: what discover_urls_db has just done with a query
    fe,         \* the running PageFetcher.fetch calls, one per task slot
    rparsers,   \* RobotsChecker._parsers: "absent", "none", or the rules' verdict
    rolock,     \* RobotsChecker._lock: the slot holding it, 0 if free
    rfetches,   \* history: robots.txt requests issued, per domain
    proxy,      \* ProxyManager.is_enabled
    dlock,      \* the rate limiter's lock of each site: the slot inside wait(), 0 if free
    browser     \* PageFetcher._browser (0 is None) and, history, the browsers launched

storeVars == <<urls, jobs>>
workerVars == <<wpc, shutdown, cur, ret, left, tasks, qleft, qsp>>
histVars == <<orphans, last, cnt>>
claimVars == <<fK, fdone, fret, flimit, flast>>
rateVars == <<now, rlLast, rlLock, rl, rlPrev>>
discVars == <<day, ledger, disc, lastq>>
fetchVars == <<fe, rparsers, rolock, rfetches, proxy, dlock, browser>>
vars == <<env, urls, jobs, wpc, shutdown, cur, ret, left, tasks, qleft, qsp, dash,
          orphans, last, cnt,
          fK, fdone, fret, flimit, flast, now, rlLast, rlLock, rl, rlPrev,
          day, ledger, disc, lastq, fe, rparsers, rolock, rfetches, proxy, dlock, browser>>

\* ------------------------------------------------------------------ helpers
Min(a, b) == IF a < b THEN a ELSE b

Range(s) == {s[i] : i \in DOMAIN s}

Take(s, n) == SubSeq(s, 1, Min(n, Len(s)))

RECURSIVE SeqsUpTo(_, _)
SeqsUpTo(S, n) ==
    IF n = 0 THEN {<<>>}
    ELSE LET shorter == SeqsUpTo(S, n - 1)
         IN shorter \cup {Append(s, x) : s \in {t \in shorter : Len(t) = n - 1}, x \in S}

NoDuplicateUrl(rows) ==
    \A i, j \in DOMAIN rows : rows[i].url = rows[j].url => i = j

UrlsOf(rows) == [i \in DOMAIN rows |-> rows[i].url]

HasRow(rows, u) == \E i \in DOMAIN rows : rows[i].url = u

StatusOf(rows, u) ==
    IF HasRow(rows, u)
    THEN (CHOOSE r \in Range(rows) : r.url = u).status
    ELSE "none"

WithStatus(rows, s) == {r.url : r \in {x \in Range(rows) : x.status = s}}

CountStatus(rows, s) == Len(SelectSeq(rows, LAMBDA r : r.status = s))

\* .update({"status": s}).eq("url", u) for every u of U
SetStatus(rows, U, s) ==
    [i \in DOMAIN rows |->
        IF rows[i].url \in U THEN [rows[i] EXCEPT !.status = s] ELSE rows[i]]

\* ------------------------------------------------------------------ frontier
\* .eq("status", "pending") [.eq("country", c)] .order("created_at").limit(limit)
SelectPending(rows, limit, country, filtered) ==
    UrlsOf(Take(SelectSeq(rows, LAMBDA r :
                    /\ r.status = "pending"
                    /\ (filtered => r.country = country)),
                limit))

\* The flip of get_pending_urls: one update per selected URL, a raising
\* update is passed over.
FlipSelected(rows, sel, failed) == SetStatus(rows, Range(sel) \ failed, "processing")

\* get_pending_urls.  outcome: "ok"; "nofilter" (the filtered select raised
\* and the unfiltered one is used); "raise" (the select raised: return []).
\* failed: the URLs whose status update raises.
GetPendingUrls(rows, limit, country, outcome, failed) ==
    IF outcome = "raise"
    THEN [urls |-> <<>>, rows |-> rows]
    ELSE LET sel == SelectPending(rows, limit, country,
                                  country # "" /\ outcome = "ok")
         IN [urls |-> sel, rows |-> FlipSelected(rows, sel, failed)]

\* mark_url_done: failed exactly when an error text is given; a raising
\* update is logged and dropped.
MarkUrlDone(rows, u, error, raises) ==
    IF raises THEN rows
    ELSE SetStatus(rows, {u}, IF error # "" THEN "failed" ELSE "completed")

\* One upsert(on_conflict="url", ignore_duplicates=True) of add_urls: a row is
\* inserted for a URL that has none, in list order; data = the inserted rows.
RECURSIVE InsertAlways(_, _, _)
InsertAlways(rows, list, country) ==
    IF list = <<>> THEN rows
    ELSE InsertAlways(
             Append(rows, [url |-> Head(list), status |-> "pending", country |-> country]),
             Tail(list), country)

RECURSIVE UpsertIgnore(_, _, _)
UpsertIgnore(rows, list, country) ==
    IF list = <<>> THEN rows
    ELSE UpsertIgnore(
             IF HasRow(rows, Head(list)) THEN rows
             ELSE Append(rows, [url |-> Head(list), status |-> "pending",
                                country |-> country]),
             Tail(list), country)

\* add_urls: slices of AddBatchSize, a raising slice is logged and skipped.
\* raising: the indices (0, 1, ...) of the slices whose upsert raises.
RECURSIVE AddUrlsFrom(_, _, _, _, _, _)
AddUrlsFrom(rows, list, country, raising, k, added) ==
    IF list = <<>> THEN [rows |-> rows, added |-> added]
    ELSE LET batch == Take(list, AddBatchSize)
             rest == SubSeq(list, Len(batch) + 1, Len(list))
             after == IF k \in raising THEN rows ELSE UpsertIgnore(rows, batch, country)
         IN AddUrlsFrom(after, rest, country, raising, k + 1,
                        added + (Len(after) - Len(rows)))

AddUrls(rows, list, country, raising) == AddUrlsFrom(rows, list, country, raising, 0, 0)

\* _recover_stuck_urls: the loop over batches of processing rows, bounded by
\* the safety limit; failing: the URLs whose reset raises (and is passed over)
\* at every attempt.  total_reset counts the selected rows, reset or not.
RECURSIVE RecoverLoop(_, _, _, _)
RecoverLoop(rows, total_reset, count, failing) ==
    IF total_reset < count + RecoverSlack
    THEN LET batch == UrlsOf(Take(SelectSeq(rows, LAMBDA r : r.status = "processing"),
                                  RecoverBatchLimit))
         IN IF batch = <<>> THEN rows
            ELSE RecoverLoop(SetStatus(rows, Range(batch) \ failing, "pending"),
                             total_reset + Len(batch), count, failing)
    ELSE rows

\* outcome "raise": the count or the first select raised, the outer handler
\* logs it and nothing is reset.
RecoverStuckUrls(rows, outcome, failing) ==
    IF outcome = "raise" THEN rows
    ELSE LET count == CountStatus(rows, "processing")
         IN IF count = 0 THEN rows ELSE RecoverLoop(rows, 0, count, failing)

\* ------------------------------------------------------------------ jobs
JOB_STATUS == {"queued", "running", "completed", "failed"}
JOB_TYPES == {"full", "search", "associations", "directories"}
\* texts an exception can carry: str(e) may be empty
MSGS == {"", "boom"}

NewJob(jtype, country) ==
    [status |-> "queued", error |-> "", jtype |-> jtype, country |-> country,
     urls_processed |-> 0, emails_found |-> 0]

\* update_job_progress: the given counters are overwritten; a raising request
\* is logged and nothing is written
UpdateJobProgress(js, id, given, raises) ==
    IF raises \/ ~env.counted THEN js
    ELSE [js EXCEPT ![id] = [f \in DOMAIN js[id] |->
                                IF f \in DOMAIN given THEN given[f] ELSE js[id][f]]]

CreateJob(js, jtype, country) == Append(js, NewJob(jtype, country))

StartJob(js, id) == [js EXCEPT ![id].status = "running"]

Requeue(js, id, error) == [js EXCEPT ![id].status = "queued", ![id].error = error]

CompleteJob(js, id, error) ==
    [js EXCEPT ![id].status = IF error # "" THEN "failed" ELSE "completed",
               ![id].error = error]

\* get_next_queued_job: the oldest queued job, 0 if none
AnyOldestJob(js) == IF js = <<>> THEN 0 ELSE 1

NewestQueuedJob(js) ==
    IF \E i \in DOMAIN js : js[i].status = "queued"
    THEN CHOOSE i \in DOMAIN js :
            /\ js[i].status = "queued"
            /\ \A k \in DOMAIN js : js[k].status = "queued" => i >= k
    ELSE 0

NextQueuedJob(js) ==
    IF \E i \in DOMAIN js : js[i].status = "queued"
    THEN CHOOSE i \in DOMAIN js :
            /\ js[i].status = "queued"
            /\ \A k \in DOMAIN js : js[k].status = "queued" => i <= k
    ELSE 0

\* get_all_active_countries(): ACTIVE_COUNTRIES, of which the model runs the first
ACTIVE == Take(<<"US", "NZ">>, MaxCountries)

\* ------------------------------------------------------------------ states drawn for Init
ROWS == [url : URLS, status : URL_STATUS, country : COUNTRIES]

FRONTIERS == {f \in SeqsUpTo(ROWS, MaxUrls) : NoDuplicateUrl(f)}

OLD_ROWS == [url : URLS, status : URL_STATUS, country : COUNTRIES]

OLD_FRONTIERS == {f \in SeqsUpTo(OLD_ROWS, MaxUrls) : NoDuplicateUrl(f)}

OLD_JOBS == {[status |-> st, error |-> IF st = "failed" THEN "boom" ELSE "",
              jtype |-> "full", country |-> "US",
              urls_processed |-> 0, emails_found |-> 0] : st \in JOB_STATUS}

\* what a search query or a crawl can return
Lists == SeqsUpTo(env.urls, MaxList)

\* Either every job type over a web of one URL, or full jobs over all URLs.
\* `held` are the URLs a directory or association crawler has already saved a
\* contact for (contacts.source_url); `mails` are the numbers of new e-mail
\* addresses a page or an association crawl can yield; `counted` says whether
\* the progress counters are followed: the worker writes them and never reads
\* them, so where they are not followed their columns are left out.
\* `batch` and `permits` are WORKER_BATCH_SIZE and MAX_CONCURRENT_REQUESTS as
\* the process environment sets them; `queries` is the most queries
\* generate_queries hands to one search phase.
ENVS == {[urls |-> {1}, types |-> JOB_TYPES, faults |-> TRUE, lands |-> Range(ACTIVE),
          held |-> {}, mails |-> {0}, counted |-> FALSE,
          batch |-> WorkerBatchSize, permits |-> MaxConcurrentRequests, queries |-> MaxQueries],
         [urls |-> URLS, types |-> {"full"}, faults |-> TRUE, lands |-> Range(ACTIVE),
          held |-> {1}, mails |-> {0}, counted |-> FALSE,
          batch |-> WorkerBatchSize, permits |-> MaxConcurrentRequests, queries |-> MaxQueries],
         [urls |-> {1}, types |-> {"full"}, faults |-> FALSE, lands |-> COUNTRIES,
          held |-> {}, mails |-> {0}, counted |-> FALSE,
          batch |-> WorkerBatchSize, permits |-> MaxConcurrentRequests, queries |-> MaxQueries],
         [urls |-> URLS, types |-> {"full"}, faults |-> FALSE, lands |-> Range(ACTIVE),
          held |-> {1}, mails |-> {0, 1}, counted |-> TRUE,
          batch |-> WorkerBatchSize, permits |-> MaxConcurrentRequests, queries |-> MaxQueries]}

\* the frontiers a previous process can have left in surroundings e: rows of
\* the URLs the web holds, enqueued for the countries that were active
OldFrontiers(e) ==
    {f \in OLD_FRONTIERS :
        /\ Range(UrlsOf(f)) \subseteq e.urls
        /\ \A r \in Range(f) : r.country \in e.lands}

\* what a request to the store can do: raise only where the surroundings
\* allow faults (env.faults)
MayRaise == IF env.faults THEN BOOLEAN ELSE {FALSE}

StoreOutcomes == IF env.faults THEN {"ok", "raise"} ELSE {"ok"}

FailingIn(S) == IF env.faults THEN SUBSET S ELSE {{}}

NoCall == [op |-> "none", before |-> <<>>, list |-> <<>>, added |-> 0, raised |-> FALSE,
           job |-> 0, was |-> "", msg |-> "", url |-> 0, success |-> TRUE, error |-> "",
           country |-> "", found |-> 0]

AddCalled(before, list, added, raised) ==
    [NoCall EXCEPT !.op = "add", !.before = before, !.list = list,
                   !.added = added, !.raised = raised]

\* start_job or complete_job applied to job id, whose status was `was`
JobCalled(op, id, was, msg) ==
    [NoCall EXCEPT !.op = op, !.job = id, !.was = was, !.msg = msg]

NoTasks == [u \in URLS |-> "none"]

\* total_processed, total_emails and the running batch's emails of
\* _process_pending_urls; history: the URLs the running job's tasks have
\* brought to completed or failed, the emails it has saved, and the queries
\* discover_urls_db has executed since the search phase began or last paused
NoCount == [tp |-> 0, te |-> 0, be |-> 0, hp |-> 0, he |-> 0, qr |-> 0]

DashIdle == [pc |-> "idle", url |-> 0]

QuietWorker ==
    /\ wpc = "boot"
    /\ shutdown = FALSE
    /\ cur = 0
    /\ ret = "none"
    /\ left = 0
    /\ tasks = NoTasks
    /\ qleft = 0
    /\ qsp = 0
    /\ dash = DashIdle
    /\ last = NoCall
    /\ cnt = NoCount

WAITERS == 1..MaxWaiters
DOMAINS == {"farm.example", "duckduckgo.com", "www.yelp.com"}

WaiterIdle == [pc |-> "idle", dom |-> "", wake |-> 0]

QuietRate ==
    /\ now = 0
    /\ rlLast = [d \in DOMAINS |-> -1]
    /\ rlLock = [d \in DOMAINS |-> 0]
    /\ rl = [c \in WAITERS |-> WaiterIdle]
    /\ rlPrev = [d \in DOMAINS |-> -1]

\* literal query texts: one template filled in for two regions, and another
QUERY_TEXTS == {"angus cattle ranch Texas", "angus cattle ranch Kansas", "beef farm Texas"}

DiscIdle == [pc |-> "idle", list |-> <<>>, i |-> 0, recent |-> {}, t0 |-> 0]

NoQuery == [op |-> "none", query |-> "", was |-> -1, at |-> 0, t0 |-> 0,
            earlier |-> FALSE, before |-> <<>>, res |-> ""]

QuietDisc ==
    /\ day = 0
    /\ ledger = <<>>
    /\ disc = DiscIdle
    /\ lastq = NoQuery

SLOTS == 1..MaxFetchers
SITES == {"ranch.example", "farm.example"}

NoResult == [by |-> "none", success |-> FALSE, error |-> ""]

\* `retries` is the argument of the running _fetch_httpx call and `slept` the
\* wait that preceded it
SlotIdle == [pc |-> "idle", dom |-> "", allowed |-> FALSE, waited |-> FALSE,
             robots |-> "", light |-> NoResult, js |-> FALSE, heavy |-> NoResult,
             log |-> <<>>, result |-> NoResult, status |-> "",
             retries |-> 0, slept |-> 0]

NoBrowser == [handle |-> 0, launches |-> 0]

QuietFetch ==
    /\ fe = [f \in SLOTS |-> SlotIdle]
    /\ rparsers = [d \in SITES |-> "absent"]
    /\ rolock = 0
    /\ rfetches = [d \in SITES |-> 0]
    /\ proxy = FALSE
    /\ dlock = [d \in SITES |-> 0]
    /\ browser = NoBrowser

QuietClaim ==
    /\ fK = 0
    /\ fdone = {}
    /\ fret = [c \in CALLERS |-> <<>>]
    /\ flimit = [c \in CALLERS |-> 0]
    /\ flast = "none"

\* ------------------------------------------------------------------ two callers of claim
\* Both callers find the same frontier and each calls get_pending_urls once.
InitClaim ==
    /\ env = [urls |-> URLS, types |-> {}, faults |-> TRUE, lands |-> COUNTRIES, held |-> {}, mails |-> {0}, counted |-> FALSE,
          batch |-> WorkerBatchSize, permits |-> MaxConcurrentRequests, queries |-> MaxQueries]
    /\ urls \in FRONTIERS
    /\ jobs = <<>>
    /\ orphans = {}
    /\ QuietWorker
    /\ fK = CountStatus(urls, "pending")
    /\ fdone = {}
    /\ fret = [c \in CALLERS |-> <<>>]
    /\ flimit = [c \in CALLERS |-> 0]
    /\ flast = "none"
    /\ QuietRate
    /\ QuietDisc
    /\ QuietFetch

ClaimCall(c) ==
    /\ c \notin fdone
    /\ \E limit \in 1..MaxUrls, country \in COUNTRIES \cup {""},
          outcome \in {"ok", "nofilter", "raise"} :
         \E failed \in SUBSET WithStatus(urls, "pending") :
            LET r == GetPendingUrls(urls, limit, country, outcome, failed)
            IN /\ urls' = r.rows
               /\ fret' = [fret EXCEPT ![c] = r.urls]
               /\ flimit' = [flimit EXCEPT ![c] = limit]
    /\ fdone' = fdone \cup {c}
    /\ flast' = c
    /\ UNCHANGED <<env, jobs, workerVars, dash, histVars, fK, rateVars, discVars, fetchVars>>

NextClaim == \E c \in CALLERS : ClaimCall(c)

SpecClaim == InitClaim /\ [][NextClaim]_vars

\* ------------------------------------------------------------------ the process
\* The store as the previous process left it; the worker is in its start-up
\* sleeps (main.run_worker, run_forever) and the dashboard is serving.
Init ==
    /\ env \in ENVS
    /\ urls \in OldFrontiers(env)
    /\ jobs \in SeqsUpTo(OLD_JOBS, MaxInitJobs)
    /\ orphans = {i \in DOMAIN jobs : jobs[i].status = "running"}
    /\ QuietWorker
    /\ QuietClaim
    /\ QuietRate
    /\ QuietDisc
    /\ QuietFetch

JobType == jobs[cur].jtype
JobCountry == jobs[cur].country

\* The places where the worker coroutine is suspended in an await (the
\* start-up sleep, a search, the association crawl, the gather of a batch, a
\* directory crawl, the sleep after an error) or has returned: only there does
\* the event loop run a signal handler or a request of the dashboard.
AtAwait == wpc \in {"boot", "discover", "assoc", "gather", "dirs", "errsleep", "stopped"}

\* _handle_shutdown
Shutdown ==
    /\ ~shutdown
    /\ AtAwait
    /\ wpc # "stopped"
    /\ shutdown' = TRUE
    /\ last' = NoCall
    /\ UNCHANGED <<env, storeVars, wpc, cur, ret, left, tasks, qleft, qsp, dash,
                   orphans, cnt, claimVars, rateVars, discVars, fetchVars>>

\* run_forever, line 69: crash recovery, then the loop is entered
WRecover ==
    /\ wpc = "boot"
    /\ \E outcome \in StoreOutcomes, failing \in FailingIn(WithStatus(urls, "processing")) :
          urls' = RecoverStuckUrls(urls, outcome, failing)
    /\ wpc' = "loop"
    /\ last' = NoCall
    /\ UNCHANGED <<env, jobs, shutdown, cur, ret, left, tasks, qleft, qsp, dash,
                   orphans, cnt, claimVars, rateVars, discVars, fetchVars>>

\* while not self._shutdown: left; fetcher.close()
WLoopExit ==
    /\ wpc = "loop"
    /\ shutdown
    /\ wpc' = "stopped"
    /\ last' = NoCall
    /\ UNCHANGED <<env, storeVars, shutdown, cur, ret, left, tasks, qleft, qsp, dash,
                   orphans, cnt, claimVars, rateVars, discVars, fetchVars>>

\* get_next_job returns a job; _execute_job starts it.  start_job is outside
\* the try: if it raises, run_forever's handler logs and sleeps.
WLoopJob ==
    /\ wpc = "loop"
    /\ ~shutdown
    /\ NextQueuedJob(jobs) # 0
    /\ LET id == NextQueuedJob(jobs)
       IN \/ /\ jobs' = StartJob(jobs, id)
             /\ last' = JobCalled("start", id, jobs[id].status, "")
             /\ cur' = id
             /\ wpc' = "p1"
          \/ /\ env.faults
             /\ wpc' = "errsleep"
             /\ last' = NoCall
             /\ UNCHANGED <<jobs, cur>>
    /\ UNCHANGED <<env, urls, shutdown, ret, left, tasks, qleft, qsp, dash,
                   orphans, cnt, claimVars, rateVars, discVars, fetchVars>>

\* no queued job: pending URLs are drained first (job_id=0), then
\* _auto_create_jobs; a raising store call goes to run_forever's handler.
WLoopIdle ==
    /\ wpc = "loop"
    /\ ~shutdown
    /\ NextQueuedJob(jobs) = 0
    /\ \/ /\ CountStatus(urls, "pending") > 0
          /\ wpc' = "claim"
          /\ ret' = "idle"
       \/ /\ CountStatus(urls, "pending") = 0
          /\ wpc' = "create"
          /\ ret' = ret
       \/ /\ env.faults
          /\ wpc' = "errsleep"
          /\ ret' = ret
    /\ last' = NoCall
    /\ UNCHANGED <<env, storeVars, shutdown, cur, left, tasks, qleft, qsp, dash,
                   orphans, cnt, claimVars, rateVars, discVars, fetchVars>>

RECURSIVE CreateFull(_, _)
CreateFull(js, cs) ==
    IF cs = <<>> THEN js ELSE CreateFull(CreateJob(js, "full", Head(cs)), Tail(cs))

\* _auto_create_jobs: one full job per active country; n < Len(ACTIVE) is a
\* create_job that raised after n jobs were created.
WCreate ==
    /\ wpc = "create"
    /\ Len(jobs) + Len(ACTIVE) <= MaxJobs
    /\ \E n \in (IF env.faults THEN 0..Len(ACTIVE) ELSE {Len(ACTIVE)}) :
          /\ jobs' = CreateFull(jobs, Take(ACTIVE, n))
          /\ wpc' = IF n = Len(ACTIVE) THEN "loop" ELSE "errsleep"
    /\ last' = NoCall
    /\ UNCHANGED <<env, urls, shutdown, cur, ret, left, tasks, qleft, qsp, dash,
                   orphans, cnt, claimVars, rateVars, discVars, fetchVars>>

\* except Exception in run_forever: await asyncio.sleep(10)
WErrWake ==
    /\ wpc = "errsleep"
    /\ wpc' = "loop"
    /\ last' = NoCall
    /\ UNCHANGED <<env, storeVars, shutdown, cur, ret, left, tasks, qleft, qsp, dash,
                   orphans, cnt, claimVars, rateVars, discVars, fetchVars>>

\* _execute_job returns without complete_job
ReturnFromJob ==
    /\ wpc' = "loop"
    /\ cur' = 0
    /\ last' = NoCall
    /\ cnt' = NoCount
    /\ UNCHANGED jobs

\* complete_job(job_id) at the end of the try; if it raises, the handler
\* calls complete_job(job_id, error=str(e)), which may raise too.
FinishJob ==
    /\ \/ /\ jobs' = CompleteJob(jobs, cur, "")
          /\ last' = JobCalled("complete", cur, jobs[cur].status, "")
          /\ wpc' = "loop"
       \/ /\ env.faults
          /\ \E m \in MSGS :
                /\ jobs' = CompleteJob(jobs, cur, m)
                /\ last' = JobCalled("complete", cur, jobs[cur].status, m)
          /\ wpc' = "loop"
       \/ /\ env.faults
          /\ jobs' = jobs
          /\ last' = NoCall
          /\ wpc' = "errsleep"
    /\ cur' = 0
    /\ cnt' = NoCount

\* _execute_job, lines 185, 192, 205: the job types a phase runs for
AllPhases(phase, jtype) == TRUE

PhaseOn(phase, jtype) == jtype \in {"full", phase}

\* phase 1 gate
WPhase1 ==
    /\ wpc = "p1"
    /\ IF PhaseOn("search", JobType)
       THEN /\ wpc' = "discover"
            /\ \E n \in 0..env.queries : qleft' = n
            /\ qsp' = 0
       ELSE /\ wpc' = "p2"
            /\ UNCHANGED <<qleft, qsp>>
    /\ last' = NoCall
    /\ UNCHANGED <<env, storeVars, shutdown, cur, ret, left, tasks, dash,
                   orphans, cnt, claimVars, rateVars, discVars, fetchVars>>

\* discover_urls_db has no query left: _run_search_with_processing returns
WDiscoverEnd ==
    /\ wpc = "discover"
    /\ qleft = 0
    /\ wpc' = "p2"
    /\ qsp' = 0
    /\ cnt' = [cnt EXCEPT !.qr = 0]
    /\ last' = NoCall
    /\ UNCHANGED <<env, storeVars, shutdown, cur, ret, left, tasks, qleft, dash,
                   orphans, claimVars, rateVars, discVars, fetchVars>>

\* self.search(query) has run once more; `leaves` says that discovery is left,
\* for a pause or for good
Ran(c, leaves) ==
    IF ~env.counted THEN c ELSE [c EXCEPT !.qr = IF leaves THEN 0 ELSE @ + 1]

\* one query of discover_urls_db; a non-empty result is yielded and the body
\* of the async for runs: add_urls, the counters, the pause for processing,
\* the shutdown check.
WDiscoverQuery ==
    /\ wpc = "discover"
    /\ qleft > 0
    /\ qleft' = qleft - 1
    /\ \E list \in Lists :
         IF list = <<>>
         THEN /\ last' = NoCall
              /\ cnt' = Ran(cnt, FALSE)
              /\ UNCHANGED <<urls, wpc, qsp, ret, left>>
         ELSE \E raising \in FailingIn(0..(Len(list) - 1)) :
                LET r == AddUrls(urls, list, JobCountry, raising)
                IN /\ urls' = r.rows
                   /\ last' = AddCalled(urls, list, r.added, raising # {})
                   /\ IF qsp + 1 >= DiscoveryBatchSize
                      THEN /\ wpc' = "claim"
                           /\ ret' = "discover"
                           /\ left' = ProcessBatchesPerCycle
                           /\ qsp' = 0
                           /\ cnt' = Ran(cnt, TRUE)
                      ELSE /\ wpc' = IF shutdown THEN "p2" ELSE "discover"
                           /\ qsp' = qsp + 1
                           /\ cnt' = Ran(cnt, shutdown)
                           /\ UNCHANGED <<ret, left>>
    /\ UNCHANGED <<env, jobs, shutdown, cur, tasks, dash,
                   orphans, claimVars, rateVars, discVars, fetchVars>>

\* after phase 1: shutdown check, association gate
WPhase2 ==
    /\ wpc = "p2"
    /\ IF shutdown THEN ReturnFromJob
       ELSE /\ wpc' = IF PhaseOn("associations", JobType) THEN "assoc" ELSE "p3"
            /\ last' = NoCall
            /\ UNCHANGED <<jobs, cur, cnt>>
    /\ qleft' = 0
    /\ qsp' = 0
    /\ UNCHANGED <<env, urls, shutdown, ret, left, tasks, dash,
                   orphans, claimVars, rateVars, discVars, fetchVars>>

\* _run_association_discovery: crawl_all returns, its URLs are enqueued;
\* the emails the crawler saved inline are written to the job's counter
WAssocDone ==
    /\ wpc = "assoc"
    /\ wpc' = "p3"
    /\ \E list \in Lists :
         IF list = <<>>
         THEN /\ last' = NoCall
              /\ UNCHANGED urls
         ELSE \E raising \in FailingIn(0..(Len(list) - 1)) :
                LET r == AddUrls(urls, list, JobCountry, raising)
                IN /\ urls' = r.rows
                   /\ last' = AddCalled(urls, list, r.added, raising # {})
    /\ \E inline_saved \in env.mails, raises \in MayRaise :
          /\ cnt.he + inline_saved <= MaxCount
          /\ cnt' = IF env.counted THEN [cnt EXCEPT !.he = @ + inline_saved] ELSE cnt
          /\ jobs' = IF inline_saved > 0
                     THEN UpdateJobProgress(jobs, cur, [emails_found |-> inline_saved], raises)
                     ELSE jobs
    /\ UNCHANGED <<env, shutdown, cur, ret, left, tasks, qleft, qsp, dash,
                   orphans, claimVars, rateVars, discVars, fetchVars>>

\* after phase 2: shutdown check, then _process_pending_urls(job_id, country)
WPhase3 ==
    /\ wpc = "p3"
    /\ IF shutdown THEN ReturnFromJob /\ UNCHANGED ret
       ELSE /\ IF CountStatus(urls, "pending") = 0
               THEN wpc' = "p4" /\ UNCHANGED ret
               ELSE wpc' = "claim" /\ ret' = "drain"
            /\ last' = NoCall
            /\ UNCHANGED <<jobs, cur, cnt>>
    /\ UNCHANGED <<env, urls, shutdown, left, tasks, qleft, qsp, dash,
                   orphans, claimVars, rateVars, discVars, fetchVars>>

\* after the drain: shutdown check, directory gate, complete_job
WPhase4 ==
    /\ wpc = "p4"
    /\ IF shutdown THEN ReturnFromJob
       ELSE IF PhaseOn("directories", JobType)
            THEN wpc' = "dirs" /\ last' = NoCall /\ UNCHANGED <<jobs, cur, cnt>>
            ELSE FinishJob
    /\ UNCHANGED <<env, urls, shutdown, ret, left, tasks, qleft, qsp, dash,
                   orphans, claimVars, rateVars, discVars, fetchVars>>

\* _run_directory_crawlers returns (each crawler's exception is caught there)
WDirsDone ==
    /\ wpc = "dirs"
    /\ FinishJob
    /\ UNCHANGED <<env, urls, shutdown, ret, left, tasks, qleft, qsp, dash,
                   orphans, claimVars, rateVars, discVars, fetchVars>>

\* a phase raises with text m: the handler of _execute_job calls
\* complete_job(job_id, error=str(e)); if that raises, run_forever's handler runs.
WPhaseRaise ==
    /\ wpc \in {"discover", "assoc", "p3"}
    /\ wpc = "p3" => ~shutdown
    /\ \E m \in MSGS :
          \/ /\ jobs' = CompleteJob(jobs, cur, m)
             /\ last' = JobCalled("raised", cur, jobs[cur].status, m)
             /\ wpc' = "loop"
          \/ /\ env.faults
             /\ jobs' = jobs
             /\ last' = NoCall
             /\ wpc' = "errsleep"
    /\ cur' = 0
    /\ cnt' = NoCount
    /\ qleft' = 0
    /\ qsp' = 0
    /\ UNCHANGED <<env, urls, shutdown, ret, left, tasks, dash,
                   orphans, claimVars, rateVars, discVars, fetchVars>>

\* ------------------------------------------------------------------ URL batches

\* where the batch loop returns to: _process_url_batches returns into the
\* async for (queries_since_processing = 0, shutdown check);
\* _process_pending_urls returns into _execute_job or run_forever.
ReturnTarget(r) ==
    CASE r = "discover" -> IF shutdown THEN "p2" ELSE "discover"
      [] r = "drain" -> "p4"
      [] OTHER -> "create"

\* the batch loop returns: its locals are gone
Returning(c) == [c EXCEPT !.tp = 0, !.te = 0, !.be = 0]

\* a task of the running job has brought a URL to completed or failed and
\* returned `saved`
Counted(c, brought, saved) ==
    IF ~env.counted THEN c
    ELSE [c EXCEPT !.be = @ + saved,
                   !.hp = IF cur # 0 /\ brought THEN @ + 1 ELSE @,
                   !.he = IF cur # 0 THEN @ + saved ELSE @]

Brought(rows, after, u) ==
    StatusOf(rows, u) \notin TERMINAL /\ StatusOf(after, u) \in TERMINAL

\* top of the batch loop: get_pending_urls(limit=WORKER_BATCH_SIZE), no country
WClaim ==
    /\ wpc = "claim"
    /\ IF ret \in {"drain", "idle"} /\ shutdown
       THEN /\ wpc' = ReturnTarget(ret)
            /\ ret' = "none"
            /\ cnt' = Returning(cnt)
            /\ UNCHANGED <<urls, tasks, left>>
            /\ last' = NoCall
       ELSE /\ last' = NoCall
            /\ \E outcome \in StoreOutcomes :
               \E failed \in FailingIn(WithStatus(urls, "pending")) :
                 LET r == GetPendingUrls(urls, env.batch, "", outcome, failed)
                 IN /\ urls' = r.rows
                    /\ IF r.urls = <<>>
                       THEN /\ wpc' = ReturnTarget(ret)
                            /\ ret' = "none"
                            /\ left' = 0
                            /\ cnt' = Returning(cnt)
                            /\ UNCHANGED tasks
                       ELSE /\ wpc' = "gather"
                            /\ tasks' = [u \in URLS |->
                                           IF u \in Range(r.urls) THEN "ready" ELSE "none"]
                            /\ UNCHANGED <<ret, left, cnt>>
    /\ UNCHANGED <<env, jobs, shutdown, cur, qleft, qsp, dash,
                   orphans, claimVars, rateVars, discVars, fetchVars>>

\* _already_has_contact: a contact with this source_url exists; a raising
\* lookup answers False
NoContactCheck(u, raised) == FALSE

AlreadyHasContact(u, raised) == u \in env.held /\ ~raised

\* the mark_url_done(url, emails_found=1) of a URL whose contact is held
HeldCalled(u, raises) == [NoCall EXCEPT !.op = "held", !.url = u, !.raised = raises]

\* asyncio.Semaphore(MAX_CONCURRENT_REQUESTS) of the running batch loop: a
\* permit is free
NoSem(ts) == TRUE

SemFree(ts) == Cardinality({v \in URLS : ts[v] = "fetching"}) < env.permits

\* process_one(url): the semaphore is taken, process() checks
\* is_url_completed, then _already_has_contact, and goes on to the fetch; a
\* raising is_url_completed ends the task.
TaskStart(u) ==
    /\ wpc = "gather"
    /\ tasks[u] = "ready"
    /\ SemFree(tasks)
    /\ \/ /\ StatusOf(urls, u) \in TERMINAL
          /\ tasks' = [tasks EXCEPT ![u] = "done"]
          /\ last' = NoCall
          /\ UNCHANGED <<urls, cnt>>
       \/ /\ StatusOf(urls, u) \notin TERMINAL
          /\ \E raised \in MayRaise :
                IF AlreadyHasContact(u, raised)
                THEN \E raises \in MayRaise :
                        /\ urls' = MarkUrlDone(urls, u, "", raises)
                        /\ last' = HeldCalled(u, raises)
                        /\ tasks' = [tasks EXCEPT ![u] = "done"]
                        /\ cnt' = Counted(cnt, Brought(urls, urls', u), 0)
                ELSE /\ tasks' = [tasks EXCEPT ![u] = "fetching"]
                     /\ last' = NoCall
                     /\ UNCHANGED <<urls, cnt>>
       \/ /\ env.faults
          /\ tasks' = [tasks EXCEPT ![u] = "done"]
          /\ last' = NoCall
          /\ UNCHANGED <<urls, cnt>>
    /\ UNCHANGED <<env, jobs, wpc, shutdown, cur, ret, left, qleft, qsp, dash,
                   orphans, claimVars, rateVars, discVars, fetchVars>>

\* what fetching and extracting one URL can come to: a FetchResult with
\* success and extraction done, a FetchResult without success (with or
\* without an error text), or an exception leaving process()
OUTCOMES ==
    {[success |-> TRUE, error |-> "", raised |-> FALSE],
     [success |-> FALSE, error |-> "HTTP 500", raised |-> FALSE],
     [success |-> FALSE, error |-> "", raised |-> FALSE],
     [success |-> FALSE, error |-> "", raised |-> TRUE]}

\* process(), line 52: error=result.error or "fetch failed"
ErrorAsIs(o) == o.error

ErrorGiven(o) == IF o.error # "" THEN o.error ELSE "fetch failed"

\* the outcome as process() and the debug endpoint treat it: success marks
\* the URL completed, a failed fetch marks it failed with the error text, an
\* exception leaves without mark_url_done.
EndOfUrl(rows, u, o, raises) ==
    CASE o.raised -> rows
      [] o.success -> MarkUrlDone(rows, u, "", raises)
      [] OTHER -> MarkUrlDone(rows, u, ErrorGiven(o), raises)

\* the country process_one passes to process(): the job's, or "US" when the
\* backlog is drained with no job (run_forever, line 84)
ProcessCountry == IF ret = "idle" THEN "US" ELSE JobCountry

CountryOf(rows, u) == (CHOOSE r \in Range(rows) : r.url = u).country

\* the mark_url_done call process() has just made, if it made one, and the
\* country its contacts were saved with
MarkCalled(u, o, raises) ==
    IF o.raised THEN [NoCall EXCEPT !.op = "taskraise", !.url = u]
    ELSE [NoCall EXCEPT !.op = "mark", !.url = u, !.success = o.success,
                        !.error = IF o.success THEN "" ELSE ErrorGiven(o),
                        !.raised = raises, !.country = ProcessCountry]

\* process(), lines 88-90 and 110: the error text mark_url_done is given for
\* a fetched page on which `found` emails were found
EmptyIsError(found) == IF found = 0 THEN "no email" ELSE ""

ErrorOfPage(found) == ""

\* what process() leaves in the URL's row: after a successful fetch and
\* extraction the mark with emails_found = found
EndOfPage(rows, u, o, found, raises) ==
    IF o.success /\ ~o.raised
    THEN MarkUrlDone(rows, u, ErrorOfPage(found), raises)
    ELSE EndOfUrl(rows, u, o, raises)

\* asyncio.gather(*tasks, return_exceptions=True): what gather does with a
\* task's outcome: an exception is collected as that task's result
GatherRaises(o) == IF o.raised THEN "escapes" ELSE "collected"

Gather(o) == "collected"

\* process() returns or raises.  An exception that gather let escape would
\* leave the batch loop for the handler of _execute_job, or of run_forever
\* when no job runs.
TaskFinish(u) ==
    /\ tasks[u] = "fetching"
    /\ \E o \in OUTCOMES, raises \in MayRaise :
       \E saved \in (IF o.success THEN env.mails ELSE {0}) :
       \E found \in (IF o.success THEN {n \in env.mails : n >= saved} ELSE {0}) :
          /\ cnt.he + saved <= MaxCount
          /\ urls' = EndOfPage(urls, u, o, found, raises)
          /\ last' = [MarkCalled(u, o, raises) EXCEPT !.found = found]
          /\ IF Gather(o) = "collected"
             THEN /\ tasks' = [tasks EXCEPT ![u] = "done"]
                  /\ cnt' = Counted(cnt, Brought(urls, urls', u), saved)
                  /\ UNCHANGED <<jobs, wpc, cur, ret, left>>
             ELSE /\ tasks' = NoTasks
                  /\ cnt' = NoCount
                  /\ jobs' = IF cur # 0 THEN CompleteJob(jobs, cur, "boom") ELSE jobs
                  /\ wpc' = IF cur # 0 THEN "loop" ELSE "errsleep"
                  /\ cur' = 0
                  /\ ret' = "none"
                  /\ left' = 0
    /\ UNCHANGED <<env, shutdown, qleft, qsp, dash,
                   orphans, claimVars, rateVars, discVars, fetchVars>>

\* the batch loop is left after a batch: `for _ in range(max_batches)` with
\* its shutdown check in _process_url_batches; never in _process_pending_urls,
\* whose `while not self._shutdown` is left at the top only
OneBatch(r, l) == TRUE

BatchesDone(r, l) == r = "discover" /\ (shutdown \/ l = 1)

\* asyncio.gather has returned: next batch, or back to the caller
WGatherDone ==
    /\ wpc = "gather"
    /\ \A u \in URLS : tasks[u] \in {"none", "done"}
    /\ tasks' = NoTasks
    /\ IF BatchesDone(ret, left)
       THEN /\ wpc' = ReturnTarget(ret)
            /\ ret' = "none"
            /\ left' = 0
       ELSE /\ wpc' = "claim"
            /\ left' = IF ret = "discover" THEN left - 1 ELSE left
            /\ UNCHANGED ret
    /\ IF ret = "discover"
       THEN /\ cnt' = [cnt EXCEPT !.be = 0]
            /\ UNCHANGED jobs
       ELSE LET total_processed ==
                    IF env.counted
                    THEN cnt.tp + Cardinality({u \in URLS : tasks[u] # "none"}) ELSE 0
                total_emails == cnt.te + cnt.be
            IN /\ total_processed <= MaxCount
               /\ total_emails <= MaxCount
               /\ cnt' = [cnt EXCEPT !.tp = total_processed, !.te = total_emails, !.be = 0]
               /\ \E raises \in MayRaise :
                     jobs' = IF cur # 0
                             THEN UpdateJobProgress(jobs, cur,
                                     [urls_processed |-> total_processed,
                                      emails_found |-> total_emails], raises)
                             ELSE jobs
    /\ last' = NoCall
    /\ UNCHANGED <<env, urls, shutdown, cur, qleft, qsp, dash,
                   orphans, claimVars, rateVars, discVars, fetchVars>>

\* ------------------------------------------------------------------ dashboard
\* GET /api/debug/process-one: get_pending_urls(limit=1), then the fetch
DashClaim ==
    /\ AtAwait
    /\ dash.pc = "idle"
    /\ last' = NoCall
    /\ \E outcome \in StoreOutcomes :
       \E failed \in FailingIn(WithStatus(urls, "pending")) :
         LET r == GetPendingUrls(urls, 1, "", outcome, failed)
         IN /\ urls' = r.rows
            /\ dash' = IF r.urls = <<>> THEN DashIdle
                       ELSE [pc |-> "fetching", url |-> r.urls[1]]
    /\ UNCHANGED <<env, jobs, workerVars, orphans, cnt, claimVars, rateVars, discVars, fetchVars>>

\* the fetch has returned or raised; the URL is marked unless it raised
DashFinish ==
    /\ AtAwait
    /\ dash.pc = "fetching"
    /\ \E o \in OUTCOMES, raises \in MayRaise :
          urls' = EndOfUrl(urls, dash.url, o, raises)
    /\ dash' = DashIdle
    /\ last' = NoCall
    /\ UNCHANGED <<env, jobs, workerVars, orphans, cnt, claimVars, rateVars, discVars, fetchVars>>

\* POST /jobs
DashCreateJob ==
    /\ AtAwait
    /\ Len(jobs) < MaxJobs
    /\ \E t \in env.types : jobs' = CreateJob(jobs, t, "US")
    /\ last' = NoCall
    /\ UNCHANGED <<env, urls, workerVars, dash, orphans, cnt, claimVars, rateVars, discVars, fetchVars>>

Next ==
    \/ Shutdown
    \/ WRecover
    \/ WLoopExit
    \/ WLoopJob
    \/ WLoopIdle
    \/ WCreate
    \/ WErrWake
    \/ WPhase1
    \/ WDiscoverEnd
    \/ WDiscoverQuery
    \/ WPhase2
    \/ WAssocDone
    \/ WPhase3
    \/ WPhase4
    \/ WDirsDone
    \/ WPhaseRaise
    \/ WClaim
    \/ WGatherDone
    \/ \E u \in URLS : TaskStart(u)
    \/ \E u \in URLS : TaskFinish(u)
    \/ DashClaim
    \/ DashFinish
    \/ DashCreateJob

Spec == Init /\ [][Next]_vars

\* ------------------------------------------------------------------ rate limiter
DefaultRateLimit == 2
SearchRateLimit == 1
DirectoryRateLimit == 3

\* RateLimiter._get_delay: CUSTOM_LIMITS.get(domain, DEFAULT_RATE_LIMIT)
GetDelay(d) ==
    CASE d \in {"duckduckgo.com", "google.com", "www.google.com"} -> SearchRateLimit
      [] d \in {"www.yellowpages.com", "www.yelp.com", "www.manta.com"} -> DirectoryRateLimit
      [] OTHER -> DefaultRateLimit

\* RateLimiter._get_lock: the key of self._locks under which the domain's
\* lock is kept
OneLock(d) == "farm.example"

GetLock(d) == d

\* self._last_request.get(domain, 0)
LastRequest(d) == IF rlLast[d] = -1 THEN 0 ELSE rlLast[d]

\* wait, lines 45-47: how long the caller sleeps inside the lock
NoSleep(delay, elapsed) == 0

SleepFor(delay, elapsed) == IF elapsed < delay THEN delay - elapsed ELSE 0

\* self._last_request[domain] = time.monotonic(), and the lock is released
Record(c, d) ==
    /\ rlPrev' = [rlPrev EXCEPT ![d] = rlLast[d]]
    /\ rlLast' = [rlLast EXCEPT ![d] = now]
    /\ rlLock' = [rlLock EXCEPT ![GetLock(d)] = 0]
    /\ rl' = [rl EXCEPT ![c] = WaiterIdle]

\* inside "async with lock": no sleep is needed and the time is recorded at
\* once, or the caller goes to sleep holding the lock
InsideLock(c, d) ==
    LET sleep == SleepFor(GetDelay(d), now - LastRequest(d))
    IN IF sleep = 0
       THEN Record(c, d)
       ELSE /\ rlLock' = [rlLock EXCEPT ![GetLock(d)] = c]
            /\ rl' = [rl EXCEPT ![c] = [pc |-> "sleeping", dom |-> d, wake |-> now + sleep]]
            /\ UNCHANGED <<rlLast, rlPrev>>

\* wait(url) is called: the lock is free and taken, or the caller queues for it
RWait(c, d) ==
    /\ rl[c].pc = "idle"
    /\ IF rlLock[GetLock(d)] = 0
       THEN InsideLock(c, d)
       ELSE /\ rl' = [rl EXCEPT ![c] = [pc |-> "queued", dom |-> d, wake |-> 0]]
            /\ UNCHANGED <<rlLast, rlLock, rlPrev>>
    /\ UNCHANGED <<env, storeVars, workerVars, dash, histVars, claimVars, now, discVars, fetchVars>>

\* a queued caller gets the released lock
RGranted(c) ==
    /\ rl[c].pc = "queued"
    /\ rlLock[GetLock(rl[c].dom)] = 0
    /\ InsideLock(c, rl[c].dom)
    /\ UNCHANGED <<env, storeVars, workerVars, dash, histVars, claimVars, now, discVars, fetchVars>>

\* asyncio.sleep returns, at its due time or later
RWake(c) ==
    /\ rl[c].pc = "sleeping"
    /\ now >= rl[c].wake
    /\ Record(c, rl[c].dom)
    /\ UNCHANGED <<env, storeVars, workerVars, dash, histVars, claimVars, now, discVars, fetchVars>>

Tick ==
    /\ now < MaxTime
    /\ now' = now + 1
    /\ UNCHANGED <<env, storeVars, workerVars, dash, histVars, claimVars,
                   rlLast, rlLock, rl, rlPrev, discVars, fetchVars>>

InitRate ==
    /\ env = [urls |-> {}, types |-> {}, faults |-> TRUE, lands |-> {}, held |-> {}, mails |-> {0}, counted |-> FALSE,
          batch |-> WorkerBatchSize, permits |-> MaxConcurrentRequests, queries |-> MaxQueries]
    /\ urls = <<>>
    /\ jobs = <<>>
    /\ orphans = {}
    /\ QuietWorker
    /\ QuietClaim
    /\ now \in 0..DefaultRateLimit
    /\ rlLast = [d \in DOMAINS |-> -1]
    /\ rlLock = [d \in DOMAINS |-> 0]
    /\ rl = [c \in WAITERS |-> WaiterIdle]
    /\ rlPrev = [d \in DOMAINS |-> -1]
    /\ QuietDisc
    /\ QuietFetch

NextRate ==
    \/ \E c \in WAITERS, d \in DOMAINS : RWait(c, d)
    \/ \E c \in WAITERS : RGranted(c)
    \/ \E c \in WAITERS : RWake(c)
    \/ Tick

SpecRate == InitRate /\ [][NextRate]_vars

\* ------------------------------------------------------------------ query ledger
\* executed_at of the query's row, -1 if it has none
ExecutedAt(rows, q) ==
    IF \E i \in DOMAIN rows : rows[i].query = q
    THEN (CHOOSE r \in Range(rows) : r.query = q).executed_at
    ELSE -1

\* mark_query_done: upsert(data, on_conflict="query"); the row of the same
\* literal text is updated (executed_at refreshed), else a row is added.
InsertQuery(rows, q, t) == Append(rows, [query |-> q, executed_at |-> t])

UpsertQuery(rows, q, t) ==
    IF \E i \in DOMAIN rows : rows[i].query = q
    THEN [i \in DOMAIN rows |->
            IF rows[i].query = q THEN [rows[i] EXCEPT !.executed_at = t] ELSE rows[i]]
    ELSE Append(rows, [query |-> q, executed_at |-> t])

\* mark_query_done with its handler: a raising request is logged, no write
MarkQueryDone(rows, q, t, raises) == IF raises THEN rows ELSE UpsertQuery(rows, q, t)

\* get_recent_queries(days): the texts of the rows executed within the window
GetRecentQueries(rows, days, t) ==
    {r.query : r \in {x \in Range(rows) : t - x.executed_at < days}}

\* discover_urls_db, line 126: the in-memory lookup
NeverSkip(q, recent) == FALSE

ShouldSkip(q, recent) == q \in recent

DiscEnv == [urls |-> {}, types |-> {}, faults |-> TRUE, lands |-> {}]

\* what self.search(query) comes to: URLs, none, or a failure it answers with []
SEARCHES == {"urls", "empty", "failed"}

\* discover_urls_db, line 143: recent_queries.add(query)
Forget(recent, q) == recent

Remember(recent, q) == recent \cup {q}

\* discover_urls_db starts: generate_queries, then the bulk load
DLoad ==
    /\ disc.pc = "idle"
    /\ \E list \in SeqsUpTo(QUERY_TEXTS, MaxRunLen) \ {<<>>} :
          disc' = [pc |-> "run", list |-> list, i |-> 1,
                   recent |-> GetRecentQueries(ledger, QueryRerunDays, day), t0 |-> day]
    /\ lastq' = NoQuery
    /\ UNCHANGED <<env, storeVars, workerVars, dash, histVars, claimVars, rateVars, fetchVars,
                   day, ledger>>

\* one turn of the for loop: the query is skipped, or searched and recorded
DQuery ==
    /\ disc.pc = "run"
    /\ disc.i <= Len(disc.list)
    /\ LET q == disc.list[disc.i]
           seen == [op |-> "skip", query |-> q, was |-> ExecutedAt(ledger, q), at |-> day,
                    t0 |-> disc.t0,
                    earlier |-> q \in Range(SubSeq(disc.list, 1, disc.i - 1)),
                    res |-> "",
                    before |-> ledger]
       IN IF ShouldSkip(q, disc.recent)
          THEN /\ lastq' = seen
               /\ disc' = [disc EXCEPT !.i = @ + 1]
               /\ UNCHANGED ledger
          ELSE \E raises \in MayRaise, res \in SEARCHES :
                  /\ ledger' = MarkQueryDone(ledger, q, day, raises)
                  /\ lastq' = [seen EXCEPT !.op = IF raises THEN "lost" ELSE "run",
                                           !.res = res]
                  /\ disc' = [disc EXCEPT !.i = @ + 1, !.recent = Remember(@, q)]
    /\ UNCHANGED <<env, storeVars, workerVars, dash, histVars, claimVars, rateVars, fetchVars, day>>

\* the generator is exhausted, or closed by its consumer (shutdown, a raise)
DEnd ==
    /\ disc.pc = "run"
    /\ disc' = DiscIdle
    /\ lastq' = NoQuery
    /\ UNCHANGED <<env, storeVars, workerVars, dash, histVars, claimVars, rateVars, fetchVars,
                   day, ledger>>

DTick ==
    /\ day < MaxDay
    /\ day' = day + 1
    /\ lastq' = NoQuery
    /\ UNCHANGED <<env, storeVars, workerVars, dash, histVars, claimVars, rateVars, fetchVars,
                   ledger, disc>>

InitDisc ==
    /\ env = DiscEnv
    /\ urls = <<>>
    /\ jobs = <<>>
    /\ orphans = {}
    /\ QuietWorker
    /\ QuietClaim
    /\ QuietRate
    /\ QuietDisc
    /\ QuietFetch

NextDisc ==
    \/ DLoad
    \/ DQuery
    \/ DEnd
    \/ DTick

SpecDisc == InitDisc /\ [][NextDisc]_vars

\* ------------------------------------------------------------------ page fetcher
\* FetchResults of _fetch_httpx and _fetch_playwright
LIGHT ==
    {[by |-> "httpx", success |-> TRUE, error |-> ""],
     [by |-> "httpx", success |-> FALSE, error |-> "HTTP 500"],
     [by |-> "httpx", success |-> FALSE, error |-> "HTTP 429"],
     [by |-> "httpx", success |-> FALSE, error |-> ""]}

\* config.py: MAX_RETRIES, RETRY_BACKOFF
MaxRetries == 3
RetryBackoff == 2

\* what one client.get of _fetch_httpx comes to: a status, or an exception
\* (a timeout, a reset connection), whose text may be empty
RESPONSES == {"200", "429", "500", "raise"}

\* _fetch_httpx, lines 125 and 137: the attempt is repeated
Retried(resp, retries) == resp \in {"429", "raise"} /\ retries < MaxRetries

\* wait = RETRY_BACKOFF ** (retries + 1)
LinearWait(retries) == RetryBackoff * (retries + 1)

BackoffWait(retries) == RetryBackoff ^ (retries + 1)

\* the FetchResult an attempt that is not repeated returns
LightResult(resp) ==
    CASE resp = "200" -> [by |-> "httpx", success |-> TRUE, error |-> ""]
      [] resp = "raise" -> [by |-> "httpx", success |-> FALSE, error |-> ""]
      [] OTHER -> [by |-> "httpx", success |-> FALSE, error |-> "HTTP " \o resp]

HEAVY ==
    {[by |-> "playwright", success |-> TRUE, error |-> ""],
     [by |-> "playwright", success |-> FALSE, error |-> "Timeout"]}

Blocked == [by |-> "robots", success |-> FALSE, error |-> "Blocked by robots.txt"]

\* _fetch_robots, lines 30-31: the domain has an entry, be it None
NeverCached(parsers, d) == FALSE

Cached(parsers, d) == parsers[d] # "absent"

\* _fetch_robots, lines 36-47: the entry stored for the response; the rules
\* stand for what can_fetch answers for the URL
ParserOf(out) == IF out \in {"allow", "disallow"} THEN out ELSE "none"

\* is_allowed, lines 54-57
DenyIfMissing(parser) == parser = "allow"

Allowed(parser) == parser = "none" \/ parser = "allow"

\* fetch, lines 68-77: where fetch goes after the robots check
GoOn(allowed) == IF proxy THEN "light" ELSE "wait1"

AfterRobots(allowed) ==
    IF allowed THEN (IF proxy THEN "light" ELSE "wait1") ELSE "done"

\* fetch, lines 87-91: the heavy render is attempted
NeedsHeavy(light, js) == ~light.success \/ js

\* fetch, lines 96-99: what is returned after the heavy render
HeavyAlways(light, heavy) == heavy

ReturnOf(light, heavy) == IF heavy.success THEN heavy ELSE light

\* process(), lines 50-53 and after: the status the URL's row gets for the
\* returned result (extraction and the writes succeeding)
StatusAfter(f, result) ==
    StatusOf(EndOfUrl(<<[url |-> f, status |-> "processing", country |-> "US"]>>, f,
                      [success |-> result.success, error |-> result.error,
                       raised |-> FALSE], FALSE), f)

Returned(rec, f, result) ==
    [rec EXCEPT !.pc = "done", !.result = result, !.status = StatusAfter(f, result)]

\* the parser is at hand: can_fetch, then the block or the way on
Judged(rec, f, parser) ==
    LET ok == Allowed(parser)
        to == AfterRobots(ok)
    IN IF to = "done"
       THEN Returned([rec EXCEPT !.allowed = ok], f, Blocked)
       ELSE [rec EXCEPT !.allowed = ok, !.pc = to]

\* is_allowed: the lock is taken if free; a cached domain is answered at
\* once, else robots.txt is requested with the lock held
RobotsEnter(f, rec) ==
    IF rolock # 0
    THEN /\ fe' = [fe EXCEPT ![f] = [rec EXCEPT !.pc = "robots_wait", !.waited = TRUE]]
         /\ UNCHANGED <<rparsers, rolock, rfetches>>
    ELSE IF Cached(rparsers, rec.dom)
         THEN /\ fe' = [fe EXCEPT ![f] =
                          Judged([rec EXCEPT !.robots = "cache"], f, rparsers[rec.dom])]
              /\ UNCHANGED <<rparsers, rolock, rfetches>>
         ELSE /\ rfetches[rec.dom] < MaxRobotsFetches
              /\ rfetches' = [rfetches EXCEPT ![rec.dom] = @ + 1]
              /\ rolock' = f
              /\ fe' = [fe EXCEPT ![f] = [rec EXCEPT !.pc = "robots_fetch"]]
              /\ UNCHANGED rparsers

\* fetch(url) is called for a URL of domain d
FCall(f, d) ==
    /\ fe[f].pc = "idle"
    /\ RobotsEnter(f, [SlotIdle EXCEPT !.dom = d])
    /\ UNCHANGED <<env, storeVars, workerVars, dash, histVars, claimVars, rateVars,
                   discVars, proxy, dlock, browser>>

FGranted(f) ==
    /\ fe[f].pc = "robots_wait"
    /\ rolock = 0
    /\ RobotsEnter(f, fe[f])
    /\ UNCHANGED <<env, storeVars, workerVars, dash, histVars, claimVars, rateVars,
                   discVars, proxy, dlock, browser>>

\* the robots.txt request ends: 200 with rules, another status, or a raise
FRobotsDone(f) ==
    /\ fe[f].pc = "robots_fetch"
    /\ \E out \in {"allow", "disallow", "404", "raise"} :
          /\ rparsers' = [rparsers EXCEPT ![fe[f].dom] = ParserOf(out)]
          /\ fe' = [fe EXCEPT ![f] = Judged([fe[f] EXCEPT !.robots = out], f, ParserOf(out))]
    /\ rolock' = 0
    /\ UNCHANGED <<env, storeVars, workerVars, dash, histVars, claimVars, rateVars,
                   discVars, rfetches, proxy, dlock, browser>>

\* rate_limiter.wait(url): the site's lock is taken (async with lock); the
\* caller sleeps out the delay inside it
FWaitEnter(f) ==
    /\ fe[f].pc \in {"wait1", "wait2"}
    /\ dlock[fe[f].dom] = 0
    /\ dlock' = [dlock EXCEPT ![fe[f].dom] = f]
    /\ fe' = [fe EXCEPT ![f].pc = IF fe[f].pc = "wait1" THEN "sleep1" ELSE "sleep2"]
    /\ UNCHANGED <<env, storeVars, workerVars, dash, histVars, claimVars, rateVars,
                   discVars, rparsers, rolock, rfetches, proxy, browser>>

\* wait() records the time, leaves the lock and returns; fetch goes on to
\* the request
FWaitExit(f) ==
    /\ fe[f].pc \in {"sleep1", "sleep2"}
    /\ dlock' = [dlock EXCEPT ![fe[f].dom] = 0]
    /\ fe' = [fe EXCEPT ![f].log = Append(@, "wait"),
                        ![f].pc = IF fe[f].pc = "sleep1" THEN "light" ELSE "heavy"]
    /\ UNCHANGED <<env, storeVars, workerVars, dash, histVars, claimVars, rateVars,
                   discVars, rparsers, rolock, rfetches, proxy, browser>>

\* one client.get of _fetch_httpx ends: the call sleeps and calls itself with
\* retries + 1, or _fetch_httpx returns and _needs_js_rendering is asked on a
\* success
FLight(f) ==
    /\ fe[f].pc = "light"
    /\ \E resp \in RESPONSES, js \in BOOLEAN :
          /\ js => resp = "200"
          /\ IF Retried(resp, fe[f].retries)
             THEN fe' = [fe EXCEPT ![f].retries = @ + 1,
                                   ![f].slept = BackoffWait(fe[f].retries)]
             ELSE LET r == LightResult(resp)
                      rec == [fe[f] EXCEPT !.log = Append(@, "httpx"), !.light = r,
                                           !.js = js, !.retries = 0, !.slept = 0]
                  IN fe' = [fe EXCEPT ![f] =
                              IF NeedsHeavy(r, js)
                              THEN [rec EXCEPT !.pc = IF proxy THEN "heavy" ELSE "wait2"]
                              ELSE Returned(rec, f, r)]
    /\ UNCHANGED <<env, storeVars, workerVars, dash, histVars, claimVars, rateVars,
                   discVars, rparsers, rolock, rfetches, proxy, dlock, browser>>

\* _get_browser, line 168: `if self._browser is None`
MustStart(b, f) == b.handle = 0

\* _fetch_playwright: _get_browser finds no browser and awaits the start of
\* Playwright and the launch; or the page is rendered and the result returned
FHeavy(f) ==
    /\ fe[f].pc = "heavy"
    /\ IF MustStart(browser, f)
       THEN fe' = [fe EXCEPT ![f].pc = "launch"]
       ELSE \E h \in HEAVY :
               fe' = [fe EXCEPT ![f] =
                        Returned([fe[f] EXCEPT !.log = Append(@, "playwright"), !.heavy = h],
                                 f, ReturnOf(fe[f].light, h))]
    /\ UNCHANGED <<env, storeVars, workerVars, dash, histVars, claimVars, rateVars,
                   discVars, rparsers, rolock, rfetches, proxy, dlock, browser>>

\* chromium.launch has returned: self._browser is the new browser
FLaunched(f) ==
    /\ fe[f].pc = "launch"
    /\ browser' = [handle |-> browser.launches + 1, launches |-> browser.launches + 1]
    /\ fe' = [fe EXCEPT ![f].pc = "heavy"]
    /\ UNCHANGED <<env, storeVars, workerVars, dash, histVars, claimVars, rateVars,
                   discVars, rparsers, rolock, rfetches, proxy, dlock>>

\* process() has returned; the slot is free for another URL
FNext(f) ==
    /\ fe[f].pc = "done"
    /\ fe' = [fe EXCEPT ![f] = SlotIdle]
    /\ UNCHANGED <<env, storeVars, workerVars, dash, histVars, claimVars, rateVars,
                   discVars, rparsers, rolock, rfetches, proxy, dlock, browser>>

InitFetch ==
    /\ env = [urls |-> {}, types |-> {}, faults |-> FALSE, lands |-> {}, held |-> {}, mails |-> {0}, counted |-> FALSE,
          batch |-> WorkerBatchSize, permits |-> MaxConcurrentRequests, queries |-> MaxQueries]
    /\ urls = <<>>
    /\ jobs = <<>>
    /\ orphans = {}
    /\ QuietWorker
    /\ QuietClaim
    /\ QuietRate
    /\ QuietDisc
    /\ fe = [f \in SLOTS |-> SlotIdle]
    /\ rparsers = [d \in SITES |-> "absent"]
    /\ rolock = 0
    /\ rfetches = [d \in SITES |-> 0]
    /\ proxy \in BOOLEAN
    /\ dlock = [d \in SITES |-> 0]
    /\ browser = NoBrowser

NextFetch ==
    \/ \E f \in SLOTS, d \in SITES : FCall(f, d)
    \/ \E f \in SLOTS : FGranted(f)
    \/ \E f \in SLOTS : FRobotsDone(f)
    \/ \E f \in SLOTS : FWaitEnter(f)
    \/ \E f \in SLOTS : FWaitExit(f)
    \/ \E f \in SLOTS : FLight(f)
    \/ \E f \in SLOTS : FHeavy(f)
    \/ \E f \in SLOTS : FLaunched(f)
    \/ \E f \in SLOTS : FNext(f)

SpecFetch == InitFetch /\ [][NextFetch]_vars

\* ------------------------------------------------------------------ progress
\* The process with the store reachable and no signal arriving: the worker
\* coroutine, its gathered tasks and a started debug request are always run
\* on by the event loop; requests to the dashboard may or may not arrive.
InitLive ==
    /\ env = [urls |-> URLS, types |-> {"full"}, faults |-> FALSE, lands |-> Range(ACTIVE), held |-> {}, mails |-> {0}, counted |-> FALSE,
          batch |-> WorkerBatchSize, permits |-> MaxConcurrentRequests, queries |-> MaxQueries]
    /\ urls \in OldFrontiers(env)
    /\ jobs \in SeqsUpTo(OLD_JOBS, MaxInitJobs)
    /\ orphans = {i \in DOMAIN jobs : jobs[i].status = "running"}
    /\ QuietWorker
    /\ QuietClaim
    /\ QuietRate
    /\ QuietDisc
    /\ QuietFetch

WorkerStep ==
    \/ WRecover
    \/ WLoopJob
    \/ WLoopIdle
    \/ WCreate
    \/ WPhase1
    \/ WDiscoverEnd
    \/ WDiscoverQuery
    \/ WPhase2
    \/ WAssocDone
    \/ WPhase3
    \/ WPhase4
    \/ WDirsDone
    \/ WPhaseRaise
    \/ WClaim
    \/ WGatherDone

TaskStep == \E u \in URLS : TaskStart(u) \/ TaskFinish(u)

NextLive ==
    \/ WorkerStep
    \/ TaskStep
    \/ DashClaim
    \/ DashFinish
    \/ DashCreateJob

SpecLive ==
    /\ InitLive
    /\ [][NextLive]_vars
    /\ WF_vars(WorkerStep)
    /\ WF_vars(TaskStep)
    /\ WF_vars(DashFinish)

\* ------------------------------------------------------------------ one job
\* The worker with the store answering, under a configured batch size of one
\* URL, or with one permit for a batch of all pending URLs.
JOB_ENVS == {[urls |-> URLS, types |-> {"full"}, faults |-> FALSE, lands |-> Range(ACTIVE),
              held |-> {}, mails |-> {0}, counted |-> TRUE,
              batch |-> 1, permits |-> MaxConcurrentRequests, queries |-> DiscoveryBatchSize + 1],
             [urls |-> URLS, types |-> {"full"}, faults |-> FALSE, lands |-> Range(ACTIVE),
              held |-> {}, mails |-> {0}, counted |-> FALSE,
              batch |-> WorkerBatchSize, permits |-> 1, queries |-> MaxQueries]}

InitJob ==
    /\ env \in JOB_ENVS
    /\ urls \in OldFrontiers(env)
    /\ jobs \in SeqsUpTo(OLD_JOBS, MaxInitJobs)
    /\ orphans = {i \in DOMAIN jobs : jobs[i].status = "running"}
    /\ QuietWorker
    /\ QuietClaim
    /\ QuietRate
    /\ QuietDisc
    /\ QuietFetch

NextJob ==
    \/ Shutdown
    \/ WLoopExit
    \/ WorkerStep
    \/ TaskStep
    \/ DashClaim
    \/ DashFinish

SpecJob == InitJob /\ [][NextJob]_vars

\* ------------------------------------------------------------------ properties

\* C1: two claim calls against a frontier holding K pending URLs, each asking
\* for up to K: no URL is returned to both callers and together they return
\* at most K URLs.
C1_NoDoubleClaim ==
    (fdone = CALLERS /\ \A c \in CALLERS : flimit[c] = fK)
        => /\ Range(fret["worker"]) \cap Range(fret["dashboard"]) = {}
           /\ Len(fret["worker"]) + Len(fret["dashboard"]) <= fK

\* C2: a claim call returns at most `limit` URLs, each of them pending when
\* selected and processing in the store when the call returns.
C2_SelectAndFlip ==
    [][\A c \in CALLERS :
          (c \notin fdone /\ c \in fdone')
              => /\ Len(fret'[c]) <= flimit'[c]
                 /\ \A u \in Range(fret'[c]) :
                       /\ StatusOf(urls, u) = "pending"
                       /\ StatusOf(urls', u) = "processing"]_vars

\* C3: a row's status moves only pending -> processing -> completed|failed,
\* or processing -> pending during startup recovery; a completed or failed
\* row never changes status again.
C3_UrlLifecycle ==
    [][\A i \in DOMAIN urls :
          LET a == urls[i].status
              b == urls'[i].status
          IN a # b => \/ a = "pending" /\ b = "processing"
                      \/ a = "processing" /\ b \in TERMINAL
                      \/ a = "processing" /\ b = "pending" /\ wpc = "boot"]_vars

\* C4: add_urls leaves the rows that existed as they were (one row per URL,
\* status unchanged), appends pending rows only for URLs that had none, and
\* returns the number of rows it appended: 0 when every URL already had a row.
C4_IdempotentEnqueue ==
    last.op = "add" =>
        LET before == last.before
            fresh == {u \in Range(last.list) : ~HasRow(before, u)}
        IN /\ NoDuplicateUrl(urls)
           /\ Len(urls) >= Len(before)
           /\ SubSeq(urls, 1, Len(before)) = before
           /\ \A i \in (Len(before) + 1)..Len(urls) :
                 urls[i].url \in fresh /\ urls[i].status = "pending"
           /\ last.added = Len(urls) - Len(before)
           /\ last.added <= Cardinality(fresh)
           /\ ~last.raised => last.added = Cardinality(fresh)

\* C4 happens: a list naming a URL whose row is processing, completed or
\* failed was enqueued with every request succeeding, and the call returned 0.
C4_Witness ==
    /\ last.op = "add"
    /\ ~last.raised
    /\ last.added = 0
    /\ \E u \in Range(last.list) : StatusOf(last.before, u) \in {"processing"} \cup TERMINAL
    /\ \E u \in Range(last.list) : StatusOf(urls, u) \in {"processing"} \cup TERMINAL

\* C5: when startup recovery has finished, no row is in status processing.
C5_RecoveryConverges ==
    [][(wpc = "boot" /\ wpc' = "loop") => CountStatus(urls', "processing") = 0]_vars

\* C6: once the worker is past its start-up, every job the previous process
\* left running has been set to failed.
C6_OrphansResolved ==
    wpc # "boot" => \A i \in orphans : jobs[i].status = "failed"

\* C7: no claim is issued, by the worker loop or by the dashboard's debug
\* endpoint, before startup recovery has run.
C7_RecoveryBeforeClaim ==
    [][((dash.pc = "idle" /\ dash'.pc = "fetching") \/ (wpc = "claim" /\ wpc' = "gather"))
          => wpc # "boot"]_vars

\* C8: a job's status changes only queued -> running or running ->
\* completed|failed; start_job is applied only to a queued job and
\* complete_job only to a running one.
C8_JobLifecycle ==
    [][/\ \A i \in DOMAIN jobs :
             LET a == jobs[i].status
                 b == jobs'[i].status
             IN a # b => \/ a = "queued" /\ b = "running"
                         \/ a = "running" /\ b \in {"completed", "failed"}
       /\ last'.op = "start" => last'.was = "queued"
       /\ last'.op \in {"complete", "raised"} => last'.was = "running"]_vars

\* C8 happens: complete_job has just closed a job that start_job had set
\* running, while another job of the table is in a different status.
C8_Witness ==
    /\ last.op \in {"complete", "raised"}
    /\ last.was = "running"
    /\ jobs[last.job].status \in {"completed", "failed"}
    /\ last.job \notin orphans
    /\ Len(jobs) >= 2

\* C9: when a phase of _execute_job raises, the job ends failed with the
\* exception's message as its error, whatever the message.
C9_RaisedMeansFailed ==
    last.op = "raised" =>
        /\ jobs[last.job].status = "failed"
        /\ jobs[last.job].error = last.msg

\* C10: on one domain, a recorded last-request time is at least the domain's
\* minimum interval after the one recorded before it.
C10_MinInterval ==
    \A d \in DOMAINS : rlPrev[d] # -1 => rlLast[d] - rlPrev[d] >= GetDelay(d)

\* C10 happens: a second call on a domain was released exactly one interval
\* after the first, while another domain's call was released in between.
C10_Witness ==
    \E d \in DOMAINS, e \in DOMAINS :
        /\ d # e
        /\ rlPrev[d] # -1
        /\ rlLast[d] - rlPrev[d] = GetDelay(d)
        /\ rlLast[e] # -1
        /\ rlPrev[d] <= rlLast[e]
        /\ rlLast[e] - rlPrev[d] < GetDelay(d)

\* C11: callers of wait() on one domain are inside the check-sleep-record
\* section one at a time, and a caller is made to queue only by a caller
\* that is inside the section for the same domain.
C11_PerDomainMutex ==
    [][/\ \A c, e \in WAITERS :
             (c # e /\ rl'[c].pc = "sleeping" /\ rl'[e].pc = "sleeping")
                 => rl'[c].dom # rl'[e].dom
       /\ \A c \in WAITERS :
             (rl[c].pc = "idle" /\ rl'[c].pc = "queued")
                 => \E e \in WAITERS \ {c} :
                       rl[e].pc = "sleeping" /\ rl[e].dom = rl'[c].dom]_vars

\* C11 happens: one caller sleeps inside the section for a domain, a second
\* caller queues behind it for the same domain.
C11_Witness ==
    \E c, e \in WAITERS :
        /\ rl[c].pc = "sleeping"
        /\ rl[e].pc = "queued"
        /\ rl[e].dom = rl[c].dom

C14_OneRowPerText ==
    /\ \A i, j \in DOMAIN ledger : ledger[i].query = ledger[j].query => i = j
    /\ lastq.op = "run"
          => /\ \E i \in DOMAIN ledger : ledger[i].query = lastq.query
             /\ Len(ledger) = Len(lastq.before) + (IF lastq.was = -1 THEN 1 ELSE 0)
             /\ \A r \in Range(lastq.before) :
                   r.query # lastq.query => r \in Range(ledger)

\* C14 happens: a query was marked done for the second time while the row
\* of the same template for another region is in the ledger.
C14_Witness ==
    /\ lastq.op = "run"
    /\ lastq.was # -1
    /\ lastq.query = "angus cattle ranch Texas"
    /\ \E i \in DOMAIN ledger : ledger[i].query = "angus cattle ranch Kansas"
    /\ Len(ledger) = Len(lastq.before)

\* C15: mark_url_done sets the row to failed exactly when an error text is
\* given and to completed exactly when none is; in process() a fetch result
\* without success ends in failed, with or without an error text of its own.
C15_TerminalByError ==
    (last.op = "mark" /\ ~last.raised)
        => /\ StatusOf(urls, last.url) = "failed" <=> last.error # ""
           /\ StatusOf(urls, last.url) = "completed" <=> last.error = ""
           /\ ~last.success <=> StatusOf(urls, last.url) = "failed"

\* C15 happens: process() has marked a URL whose fetch failed, and the row
\* is failed.
C15_Witness ==
    /\ last.op = "mark"
    /\ ~last.raised
    /\ ~last.success
    /\ StatusOf(urls, last.url) = "failed"

\* C16: the URLs processed for country C, and saved with country C, are
\* URLs that were enqueued for country C.
C16_CountryIsolation ==
    last.op = "mark" => CountryOf(urls, last.url) = last.country


PastRobots(f) ==
    fe[f].pc \in {"wait1", "sleep1", "light", "wait2", "sleep2", "heavy", "launch", "done"}

\* C17: a fetch whose URL robots.txt disallows returns the failure "Blocked by
\* robots.txt" having called neither the rate limiter, nor the lightweight
\* fetch, nor the heavy render; the processor records the URL as failed, and
\* the call is over: the slot's next step is a fetch of another URL.
C17_BlockedNoNetwork ==
    [][\A f \in SLOTS :
         /\ (PastRobots(f)' /\ ~fe'[f].allowed) =>
               /\ fe'[f].pc = "done"
               /\ fe'[f].log = <<>>
               /\ fe'[f].result = Blocked
               /\ fe'[f].status = "failed"
         /\ (fe[f].pc = "done" /\ ~fe[f].allowed /\ fe'[f] # fe[f]) =>
               fe'[f] = SlotIdle]_vars

C17_Witness ==
    \E f \in SLOTS :
        /\ fe[f].pc = "done"
        /\ rparsers[fe[f].dom] = "disallow"
        /\ fe[f].result = Blocked
        /\ fe[f].status = "failed"

\* C18: in a returned fetch that robots.txt allowed, the heavy render was
\* attempted exactly when the lightweight fetch failed or its HTML was judged
\* to need JavaScript; the result is the heavy one if it was attempted and
\* succeeded, and the lightweight one otherwise.
C18_HeavyFallback ==
    \A f \in SLOTS :
        (fe[f].pc = "done" /\ fe[f].allowed) =>
            LET heavy == \E i \in DOMAIN fe[f].log : fe[f].log[i] = "playwright"
            IN /\ heavy <=> (~fe[f].light.success \/ fe[f].js)
               /\ fe[f].result = IF heavy /\ fe[f].heavy.success
                                 THEN fe[f].heavy ELSE fe[f].light
               /\ fe[f].light.by = "httpx"
               /\ heavy => fe[f].heavy.by = "playwright"

C18_Witness ==
    \E f \in SLOTS :
        /\ fe[f].pc = "done"
        /\ fe[f].allowed
        /\ fe[f].js
        /\ fe[f].heavy.by = "playwright"
        /\ ~fe[f].heavy.success
        /\ fe[f].result = fe[f].light

\* C19: no domain's robots.txt is requested more than once; a request is in
\* flight only with the lock held, a caller arriving meanwhile waits, and a
\* caller for a domain already answered is served from the cache.
C19_OneRobotsFetch ==
    /\ \A d \in SITES : rfetches[d] <= 1
    /\ \A d \in SITES : Cardinality({f \in SLOTS : fe[f].pc = "robots_fetch" /\ fe[f].dom = d})
                           <= (IF rparsers[d] = "absent" THEN 1 ELSE 0)
    /\ \A f \in SLOTS : fe[f].pc = "robots_fetch" => rolock = f
    /\ \A f \in SLOTS : fe[f].robots = "cache" => rfetches[fe[f].dom] = 1

C19_Witness ==
    \E f, g \in SLOTS :
        /\ f # g
        /\ fe[f].dom = fe[g].dom
        /\ fe[f].waited
        /\ fe[f].robots = "cache"
        /\ fe[g].robots \in {"allow", "disallow", "404", "raise"}
        /\ rfetches[fe[f].dom] = 1

\* C20: a robots.txt request that raised or was answered with a status other
\* than 200 leaves the domain without rules; that never changes, and every
\* is_allowed for the domain, in that call and in every later one, answers true.
C20_FailOpen ==
    [][/\ \A f \in SLOTS :
            (fe[f].pc = "robots_fetch" /\ fe'[f].pc # "robots_fetch"
                /\ fe'[f].robots \in {"404", "raise"}) =>
                    rparsers'[fe[f].dom] = "none"
       /\ \A d \in SITES : rparsers[d] = "none" => rparsers'[d] = "none"
       /\ \A f \in SLOTS :
            (PastRobots(f)' /\ rparsers'[fe'[f].dom] = "none") => fe'[f].allowed]_vars

C20_Witness ==
    \E f, g \in SLOTS :
        /\ f # g
        /\ fe[f].dom = fe[g].dom
        /\ fe[f].robots = "raise"
        /\ fe[g].robots = "cache"
        /\ fe[f].allowed
        /\ fe[g].allowed


C22_CountersMatch ==
    [][(cur # 0 /\ cur' = 0 /\ jobs'[cur].status \in {"completed", "failed"}
          /\ jobs[cur].status = "running") =>
            /\ jobs'[cur].urls_processed = cnt.hp
            /\ jobs'[cur].emails_found = cnt.he]_vars


\* a request of slot f to its site is in flight: _fetch_httpx or
\* _fetch_playwright has been called and has not returned
InFlight(f) == fe[f].pc \in {"light", "heavy"}

\* C23: no two requests to one site are in flight at once.
C23_DomainSerial ==
    \A f, g \in SLOTS :
        (f # g /\ InFlight(f) /\ InFlight(g)) => fe[f].dom # fe[g].dom


C25_UrlErrorIsLocal ==
    [][/\ last'.op = "taskraise" =>
             /\ tasks[last'.url] = "fetching"
             /\ tasks' = [tasks EXCEPT ![last'.url] = "done"]
             /\ UNCHANGED <<jobs, wpc, cur, ret, left>>
       /\ (wpc = "gather" /\ wpc' # "gather") =>
             /\ \A u \in URLS : tasks[u] \in {"none", "done"}
             /\ wpc' \in {"claim", "discover", "p2"}
             /\ cur' = cur
             /\ cur # 0 => jobs'[cur].status = jobs[cur].status]_vars

\* one task of the batch has raised, leaving its URL in processing, and
\* another task of the same batch has since brought its URL to a terminal status
C25_Witness ==
    /\ ~env.faults
    /\ wpc = "gather"
    /\ cur # 0
    /\ jobs[cur].status = "running"
    /\ last.op \in {"mark", "held"}
    /\ StatusOf(urls, last.url) \in TERMINAL
    /\ \E v \in URLS :
          /\ v # last.url
          /\ tasks[v] = "done"
          /\ tasks[last.url] = "done"
          /\ StatusOf(urls, v) = "processing"


\* C26: an iteration of the main loop does one thing: _auto_create_jobs is
\* reached only from the top of the loop, in an iteration that found no queued
\* job and no pending URL, never in an iteration that has drained pending URLs.
C26_OneThingPerIteration ==
    [][(wpc' = "create" /\ wpc # "create") =>
          /\ wpc = "loop"
          /\ NextQueuedJob(jobs) = 0
          /\ CountStatus(urls, "pending") = 0]_vars


\* the place of the worker within _execute_job: 1 search with processing,
\* 3 association discovery, 5 drain, 7 directory crawling, the even numbers
\* the checks between them
PhaseRank ==
    CASE wpc = "p1" -> 0
      [] wpc = "discover" -> 1
      [] wpc \in {"claim", "gather"} /\ ret = "discover" -> 1
      [] wpc = "p2" -> 2
      [] wpc = "assoc" -> 3
      [] wpc = "p3" -> 4
      [] wpc \in {"claim", "gather"} /\ ret = "drain" -> 5
      [] wpc = "p4" -> 6
      [] wpc = "dirs" -> 7
      [] OTHER -> 8

\* C27: while a job runs the worker moves through search with processing,
\* association discovery, drain and directory crawling in this order and
\* never back; search, associations and directories are entered exactly for
\* the job types full and their own (unless shutdown ends the job first), the
\* drain for every type; a phase is entered from the check that follows the
\* return of the previous one, with no task of a batch left running.
C27_PhaseOrder ==
    [][(cur # 0 /\ cur' = cur) =>
          /\ PhaseRank' >= PhaseRank
          /\ (wpc = "p1" /\ wpc' # wpc) =>
                (wpc' = "discover" <=> JobType \in {"full", "search"})
          /\ (wpc = "p2" /\ wpc' # wpc /\ ~shutdown) =>
                (wpc' = "assoc" <=> JobType \in {"full", "associations"})
          /\ (wpc = "p4" /\ wpc' # wpc /\ ~shutdown) =>
                (wpc' = "dirs" <=> JobType \in {"full", "directories"})
          /\ (PhaseRank' = 1 /\ PhaseRank # 1) => wpc = "p1"
          /\ (PhaseRank' = 3 /\ PhaseRank # 3) => wpc = "p2"
          /\ (PhaseRank' = 5 /\ PhaseRank # 5) => wpc = "p3"
          /\ (PhaseRank' = 7 /\ PhaseRank # 7) => wpc = "p4"
          /\ PhaseRank' \in {0, 2, 3, 4, 6, 7} => tasks' = NoTasks]_vars

\* a job of type search has passed the drain without association discovery
C27_Witness ==
    /\ cur # 0
    /\ JobType = "search"
    /\ wpc = "p4"
    /\ CountStatus(urls, "completed") > 0


PauseBounded ==
    (ret = "discover" /\ wpc \in {"claim", "gather"})
       => /\ left \in 1..ProcessBatchesPerCycle
          /\ Cardinality({u \in URLS : tasks[u] # "none"}) <= env.batch

\* C29: in the search phase discovery never executes more than
\* DISCOVERY_BATCH_SIZE queries in a row without pausing to process pending
\* URLs.
C29_PauseEveryN == cnt.qr <= DiscoveryBatchSize

\* C30: at every moment at most MAX_CONCURRENT_REQUESTS URL tasks of the
\* worker's batch loop are inside processor.process, whatever the batch size.
C30_SemaphoreBound ==
    Cardinality({u \in URLS : tasks[u] = "fetching"}) <= env.permits

\* a batch of two URLs under one permit: one task is inside process, the
\* other waits for the semaphore
C30_Witness ==
    /\ env.permits = 1
    /\ \E u, v \in URLS : tasks[u] = "fetching" /\ tasks[v] = "ready"

\* C31: once the shutdown flag is set the orchestrator claims no further URL
\* batch, starts no further job and creates no new job (in-flight URL tasks
\* may finish).
C31_NothingNewAfterShutdown ==
    [][shutdown
          => /\ ~(wpc = "claim" /\ wpc' = "gather")
             /\ ~(wpc = "loop" /\ wpc' = "p1")
             /\ ~(wpc = "create" /\ Len(jobs') > Len(jobs))]_vars

\* C32: _fetch_httpx makes at most MAX_RETRIES + 1 attempts whatever mixture
\* of 429 responses and exceptions it meets, and the wait before the k-th
\* retry is RETRY_BACKOFF^k seconds: 2, 4, 8.
C32_RetryBudget ==
    [][\A f \in SLOTS :
          (fe[f].pc = "light" /\ fe'[f] # fe[f])
             => \/ fe'[f].pc # "light"
                \/ /\ fe'[f].retries = fe[f].retries + 1
                   /\ fe'[f].retries <= MaxRetries
                   /\ fe'[f].slept = <<2, 4, 8>>[fe'[f].retries]]_vars

\* the fourth attempt is under way, 8 seconds after the third
C32_Witness ==
    \E f \in SLOTS : fe[f].pc = "light" /\ fe[f].retries = MaxRetries /\ fe[f].slept = 8

\* C33: a transient failure of the lightweight fetch (a timeout, a reset
\* connection, an HTTP 5xx response) is returned as a failure only when the
\* retry budget is used up.
C33_TransientRetried ==
    [][\A f \in SLOTS :
          (/\ fe[f].pc = "light"
           /\ fe'[f].pc # "light"
           /\ fe'[f].light \in {LightResult("500"), LightResult("raise")})
             => fe[f].retries = MaxRetries]_vars

\* C34: the Playwright browser is started at most once per PageFetcher,
\* however the fetch calls that fall back to the heavy render interleave.
C34_BrowserOnce == browser.launches <= 1

\* the hosts RateLimiter.CUSTOM_LIMITS overrides
CustomHosts ==
    {"duckduckgo.com", "google.com", "www.google.com",
     "www.yellowpages.com", "www.yelp.com", "www.manta.com"}

\* C35: the interval a caller of wait() is held to on an overridden host (a
\* search engine or a directory site) is at least the default interval of
\* generic domains.
C35_SensitiveSlower ==
    \A c \in WAITERS :
        rl[c].dom \in CustomHosts => GetDelay(rl[c].dom) >= DefaultRateLimit

\* C36: when the fetch of a URL succeeds and no email is found on the page,
\* process() marks the URL completed with emails_found = 0 and no error; it
\* is not failed.
C36_EmptyIsCompleted ==
    [][(last'.op = "mark" /\ last'.success /\ last'.found = 0 /\ ~last'.raised)
          => /\ StatusOf(urls', last'.url) = "completed"
             /\ last'.error = ""]_vars

\* a task has just marked a fetched page without email
C36_Witness ==
    /\ last.op = "mark"
    /\ last.success
    /\ last.found = 0
    /\ tasks[last.url] = "done"
    /\ StatusOf(urls, last.url) = "completed"

\* C37: when the gather of a processing batch has returned, every URL claimed
\* for the batch is completed or failed; none is left in processing, also
\* when its processing raised or its mark_url_done write failed.
C37_BatchLeavesNoProcessing ==
    [][(wpc = "gather" /\ wpc' # "gather")
          => \A u \in URLS : tasks[u] # "none" => StatusOf(urls', u) \in TERMINAL]_vars

\* C38: with shutdown requested while a job is executing and no phase
\* raising, _execute_job returns without complete_job: the job is still
\* running when the worker is back at the top of its loop, neither completed
\* nor failed.
C38_ShutdownLeavesRunning ==
    [][(shutdown /\ cur # 0 /\ cur' = 0 /\ last'.op # "raised")
          => jobs'[cur].status = "running"]_vars

\* the jobs this process has started and not yet completed
StartedRunning(js) == {i \in DOMAIN js : i \notin orphans /\ js[i].status = "running"}

====
